---- MODULE Spec2Model ----
(***************************************************************************)
(* A model of calc.py: the lexer (Lexer.lex), the LL(1) recursive-descent   *)
(* parser (Parser2), the code generator (Code.gen) and the evaluator        *)
(* (Code.run), driven as the script's main block drives them:               *)
(*     e = Parser2(s).parse(); c = Code.gen(e); r = c.run(d)                *)
(*                                                                         *)
(* Text is a sequence of one-character strings.  Indices i, j into the     *)
(* text are 0-based byte offsets as in the source; At(s, i) is s[i].       *)
(* The source is Python 2 (print statements, gen.next()), so `/` between   *)
(* two ints is floor division and int ** negative int is a float.          *)
(***************************************************************************)
EXTENDS Integers, Sequences, FiniteSets, TLC

VARIABLES text, pc, cur, ast, code, env, result

vars == <<text, pc, cur, ast, code, env, result>>

(***************************************************************************)
(* Bounds of the model.                                                    *)
(***************************************************************************)
MaxLen == 3       \* words in an input drawn from the free word sequences
MaxRun == 2       \* operators in a flat run  a0 op1 a1 ... opn an
MaxBang == 3      \* consecutive '!' tokens after an atom
MaxArgs == 3      \* arguments of a function application
MaxInt == 1000    \* magnitude up to which integer results are tracked

(***************************************************************************)
(* Characters.  str.isalpha / isdigit / isalnum / isspace of a Python 2     *)
(* byte string in the C locale: the ASCII letters of both cases, the ASCII *)
(* digits, and the six ASCII whitespace characters.                        *)
(***************************************************************************)
Alpha == {"a","b","c","d","e","f","g","h","i","j","k","l","m",
          "n","o","p","q","r","s","t","u","v","w","x","y","z",
          "A","B","C","D","E","F","G","H","I","J","K","L","M",
          "N","O","P","Q","R","S","T","U","V","W","X","Y","Z"}
Digit == {"0","1","2","3","4","5","6","7","8","9"}
Space == {" ", "\t", "\n", "\r", "\f", ""}
isalpha(c) == c \in Alpha
isdigit(c) == c \in Digit
isalnum(c) == c \in Alpha \cup Digit
isspace(c) == c \in Space

At(s, i) == s[i + 1]
Slice(s, i, j) == SubSeq(s, i + 1, j)          \* s[i:j]

RECURSIVE Str(_)
Str(s) == IF s = <<>> THEN "" ELSE Head(s) \o Str(Tail(s))

(***************************************************************************)
(* Lexer                                                                   *)
(***************************************************************************)
Lexeme(name, pos, data) == [name |-> name, pos |-> pos, data |-> data]

RECURSIVE ScanWhile(_, _, _)
ScanWhile(data, j, S) ==
    IF j < Len(data) /\ At(data, j) \in S THEN ScanWhile(data, j + 1, S) ELSE j

\* while j < len(self.data) and self.data[j].isalnum(): j += 1
lexid(data, i) ==
    LET j == ScanWhile(data, i + 1, Alpha \cup Digit)
    IN  <<Lexeme("id", i, Slice(data, i, j)), j>>

\* num_re = (?:0|[1-9][0-9]*)(?:\.[0-9]+)?  matched at offset i;
\* the end offset of the match, or -1 when there is no match.
num_re_match(data, i) ==
    IF ~(i < Len(data) /\ isdigit(At(data, i))) THEN -1
    ELSE LET k == IF At(data, i) = "0" THEN i + 1 ELSE ScanWhile(data, i + 1, Digit)
             f == ScanWhile(data, k + 1, Digit)
         IN  IF k < Len(data) /\ At(data, k) = "." /\ f > k + 1 THEN f ELSE k

lexnum(data, i) ==
    LET m == num_re_match(data, i)
    IN  IF m = -1 THEN <<Lexeme("num error", i, <<>>), -1>>
        ELSE <<Lexeme("num", i, Slice(data, i, m)), m>>

\* The generator Lexer.lex run to exhaustion from offset i: every lexeme it
\* yields, the '$' sentinel last.  A lexical error ends the sequence with a
\* "num error" lexeme in place of the sentinel.
RECURSIVE lexFrom(_, _)
lexFrom(data, i) ==
    IF i < Len(data) THEN
        LET c == At(data, i) IN
        IF isspace(c) THEN lexFrom(data, i + 1)
        ELSE IF isalpha(c) THEN
            LET r == lexid(data, i) IN <<r[1]>> \o lexFrom(data, r[2])
        ELSE IF isdigit(c) THEN
            LET r == lexnum(data, i) IN
            IF r[2] = -1 THEN <<r[1]>> ELSE <<r[1]>> \o lexFrom(data, r[2])
        ELSE IF i + 1 < Len(data) /\ c = "/" /\ At(data, i + 1) = "/" THEN
            <<Lexeme("//", i, <<"/", "/">>)>> \o lexFrom(data, i + 2)
        ELSE <<Lexeme(c, i, <<c>>)>> \o lexFrom(data, i + 1)
    ELSE <<Lexeme("$", i, <<>>)>>

lex(data) == lexFrom(data, 0)

(***************************************************************************)
(* AST.  Expr(op, *args) of the source is [op, data, args]: data is the    *)
(* leading string argument of a 'num', 'id' or 'apply' node (the literal   *)
(* text, the name), <<>> for every other node; args are the child nodes.   *)
(***************************************************************************)
Expr(op, data, args) == [op |-> op, data |-> data, args |-> args]

(***************************************************************************)
(* Parser2.  A parse function takes the token sequence and the index p of  *)
(* the lookahead token self.cur and returns [ok, e, p]: ok is FALSE when   *)
(* self.error() was raised (p is then the offending token), else e is the  *)
(* returned value and p the lookahead after the call.                      *)
(***************************************************************************)
None == [none |-> TRUE]
Some(v) == [none |-> FALSE, v |-> v]
Ok(e, p) == [ok |-> TRUE, e |-> e, p |-> p]
error(p) == [ok |-> FALSE, e |-> None, p |-> p]

lxin(toks, p, names) == toks[p].name \in names

\* Parser2.next: refuses to advance past the sentinel.
next(toks, p) == IF toks[p].name = "$" THEN error(p) ELSE Ok(None, p + 1)

\* right fold of parseEx: lst = [lhs] + lst; expr = lst[-1]; i = len(lst) - 3
RECURSIVE rightLoop(_, _, _)
rightLoop(lst, i, expr) ==
    IF i >= 0 THEN rightLoop(lst, i - 2, Expr(At(lst, i + 1), <<>>, <<At(lst, i), expr>>))
    ELSE expr

foldRight(lhs, lst0) ==
    LET lst == <<lhs>> \o lst0
    IN  rightLoop(lst, Len(lst) - 3, At(lst, Len(lst) - 1))

\* left fold of parseEx: expr = lhs; i = 0; while i < len(lst) - 1
RECURSIVE leftLoop(_, _, _)
leftLoop(lst, i, expr) ==
    IF i < Len(lst) - 1 THEN leftLoop(lst, i + 2, Expr(At(lst, i), <<>>, <<expr, At(lst, i + 1)>>))
    ELSE expr

\* the left fold with the operands of each node exchanged
RECURSIVE leftLoop_swapped(_, _, _)
leftLoop_swapped(lst, i, expr) ==
    IF i < Len(lst) - 1
    THEN leftLoop_swapped(lst, i + 2, Expr(At(lst, i), <<>>, <<At(lst, i + 1), expr>>))
    ELSE expr
foldLeft_swapped(lhs, lst) == leftLoop_swapped(lst, 0, lhs)

foldLeft(lhs, lst) == leftLoop(lst, 0, lhs)

RECURSIVE parseEx(_, _, _, _, _, _), parseEx_(_, _, _, _, _), call(_, _, _)
RECURSIVE parseE1(_, _), parseE2(_, _), parseE3(_, _), parseE4(_, _)
RECURSIVE parseE5(_, _), parseE6(_, _), parseA(_, _), parseL(_, _), parseL_(_, _)
RECURSIVE parseE1_(_, _), parseE2_(_, _), parseE4_(_, _), parseE5_(_, _)

\* f1() / f2(): the call of a bound method handed to parseEx or parseEx_,
\* the method being named by f
call(f, toks, p) ==
    CASE f = "parseE2" -> parseE2(toks, p)
      [] f = "parseE3" -> parseE3(toks, p)
      [] f = "parseE5" -> parseE5(toks, p)
      [] f = "parseE1_" -> parseE1_(toks, p)
      [] f = "parseE2_" -> parseE2_(toks, p)
      [] f = "parseE4_" -> parseE4_(toks, p)

\* parseEx after lst = f2(): return lhs, or fold the run
parseEx_fold(right, lhs, lst) ==
    IF ~lst.ok THEN lst
    ELSE IF Len(lst.e) = 0 THEN Ok(lhs, lst.p)
    ELSE IF right THEN Ok(foldRight(lhs, lst.e), lst.p)
    ELSE Ok(foldLeft(lhs, lst.e), lst.p)

\* parseEx after lhs = f1()
parseEx_lst(f2, right, toks, lhs) ==
    IF ~lhs.ok THEN lhs ELSE parseEx_fold(right, lhs.e, call(f2, toks, lhs.p))

parseEx(names, f1, f2, right, toks, p) ==
    IF ~lxin(toks, p, names) THEN error(p)
    ELSE parseEx_lst(f2, right, toks, call(f1, toks, p))

\* parseEx_ after the recursive call: return [c.name, lhs] + lst
parseEx_cons(c, lhs, lst) ==
    IF ~lst.ok THEN lst ELSE Ok(<<c.name, lhs>> \o lst.e, lst.p)

\* parseEx_ after lhs = f1()
parseEx_rest(names, skips, f1, toks, c, lhs) ==
    IF ~lhs.ok THEN lhs
    ELSE parseEx_cons(c, lhs.e, parseEx_(names, skips, f1, toks, lhs.p))

parseEx_(names, skips, f1, toks, p) ==
    IF lxin(toks, p, names) THEN
        LET n == next(toks, p) IN
        IF ~n.ok THEN n
        ELSE parseEx_rest(names, skips, f1, toks, toks[p], call(f1, toks, n.p))
    ELSE IF lxin(toks, p, skips) THEN Ok(<<>>, p)
    ELSE error(p)

parseE1(toks, p) ==
    parseEx({"num", "id", "(", "|", "-"}, "parseE2", "parseE1_", FALSE, toks, p)

parseE2(toks, p) ==
    parseEx({"num", "id", "(", "|", "-"}, "parseE3", "parseE2_", FALSE, toks, p)

\* parseE3 after expr = self.parseE3(): return Expr('-', expr)
parseE3_neg(expr) ==
    IF ~expr.ok THEN expr ELSE Ok(Expr("-", <<>>, <<expr.e>>), expr.p)

\* unary minus taking the E5 operand only, the '^' tail applying to the result
parseE3_tight_lst(toks, r) ==
    IF ~r.ok THEN r
    ELSE parseEx_fold(TRUE, Expr("-", <<>>, <<r.e>>), parseE4_(toks, r.p))
parseE3_tight(toks, p) ==
    IF lxin(toks, p, {"-"}) THEN
        LET n == next(toks, p) IN
        IF ~n.ok THEN n ELSE parseE3_tight_lst(toks, parseE5(toks, n.p))
    ELSE IF lxin(toks, p, {"num", "id", "(", "|"}) THEN parseE4(toks, p)
    ELSE error(p)

parseE3(toks, p) ==
    IF lxin(toks, p, {"-"}) THEN
        LET n == next(toks, p) IN
        IF ~n.ok THEN n ELSE parseE3_neg(parseE3(toks, n.p))
    ELSE IF lxin(toks, p, {"num", "id", "(", "|"}) THEN parseE4(toks, p)
    ELSE error(p)

\* the '^' run folded as the other tiers are
parseE4_left(toks, p) ==
    parseEx({"num", "id", "(", "|"}, "parseE5", "parseE4_", FALSE, toks, p)

parseE4(toks, p) ==
    parseEx({"num", "id", "(", "|"}, "parseE5", "parseE4_", TRUE, toks, p)

\* parseE5 after self.parseE5_(): expr, or Expr('!', expr)
parseE5_ret(expr, b) ==
    IF ~b.ok THEN b
    ELSE IF b.e.none THEN Ok(expr, b.p)
    ELSE Ok(Expr("!", <<>>, <<expr>>), b.p)

\* parseE5 after expr = self.parseE6()
parseE5_bang(toks, expr) ==
    IF ~expr.ok THEN expr ELSE parseE5_ret(expr.e, parseE5_(toks, expr.p))

parseE5(toks, p) ==
    IF lxin(toks, p, {"num", "id", "(", "|"}) THEN parseE5_bang(toks, parseE6(toks, p))
    ELSE error(p)

\* parseE6, 'id' branch after a = self.parseA()
parseE6_id(c, a) ==
    IF ~a.ok THEN a
    ELSE IF a.e.none THEN Ok(Expr("id", c.data, <<>>), a.p)
    ELSE Ok(Expr("apply", c.data, a.e.v), a.p)

\* parseE6, '(' and '|' branches after e1 = self.parseE1(): the closing token
parseE6_close(toks, closer, e1) ==
    IF ~e1.ok THEN e1
    ELSE IF lxin(toks, e1.p, {closer}) THEN
        LET m == next(toks, e1.p) IN
        IF ~m.ok THEN m
        ELSE IF closer = ")" THEN Ok(e1.e, m.p)
        ELSE Ok(Expr("abs", <<>>, <<e1.e>>), m.p)
    ELSE error(e1.p)

parseE6(toks, p) ==
    LET c == toks[p] IN
    IF c.name = "num" THEN
        LET n == next(toks, p) IN
        IF ~n.ok THEN n ELSE Ok(Expr("num", c.data, <<>>), n.p)
    ELSE IF c.name = "id" THEN
        LET n == next(toks, p) IN
        IF ~n.ok THEN n ELSE parseE6_id(c, parseA(toks, n.p))
    ELSE IF c.name \in {"(", "|"} THEN
        LET n == next(toks, p) IN
        IF ~n.ok THEN n
        ELSE parseE6_close(toks, IF c.name = "(" THEN ")" ELSE "|", parseE1(toks, n.p))
    ELSE Ok(None, p)    \* falls off the end of the if chain: returns None

\* parseA after ll = self.parseL(): the closing ')'
parseA_close(toks, ll) ==
    IF ~ll.ok THEN ll
    ELSE IF lxin(toks, ll.p, {")"}) THEN
        LET m == next(toks, ll.p) IN
        IF ~m.ok THEN m ELSE Ok(Some(ll.e), m.p)
    ELSE error(ll.p)

parseA(toks, p) ==
    IF lxin(toks, p, {"("}) THEN
        LET n == next(toks, p) IN
        IF ~n.ok THEN n ELSE parseA_close(toks, parseL(toks, n.p))
    ELSE IF lxin(toks, p, {"!", "$", "^", "*", "/", "//", "%", "+", "-", ")", "|", ","})
         THEN Ok(None, p)
    ELSE error(p)

\* parseL and parseL_ after l_ = self.parseL_(): [e1], or [e1] + l_
parseL_ret(e1, l_) ==
    IF ~l_.ok THEN l_
    ELSE IF l_.e.none THEN Ok(<<e1>>, l_.p)
    ELSE Ok(<<e1>> \o l_.e.v, l_.p)

\* parseL and parseL_ after e1 = self.parseE1()
parseL_tail(toks, e1) ==
    IF ~e1.ok THEN e1 ELSE parseL_ret(e1.e, parseL_(toks, e1.p))

parseL(toks, p) ==
    IF lxin(toks, p, {"num", "id", "(", "|", "-"}) THEN parseL_tail(toks, parseE1(toks, p))
    ELSE error(p)

\* parseL_ returns its list where parseL_ret's caller tests it against None
parseL_some(ll) == IF ~ll.ok THEN ll ELSE Ok(Some(ll.e), ll.p)

parseL_(toks, p) ==
    IF lxin(toks, p, {","}) THEN
        LET n == next(toks, p) IN
        IF ~n.ok THEN n ELSE parseL_some(parseL_tail(toks, parseE1(toks, n.p)))
    ELSE IF lxin(toks, p, {")"}) THEN Ok(None, p)
    ELSE error(p)

parseE1_(toks, p) ==
    parseEx_({"+", "-"}, {")", "|", ",", "$"}, "parseE2", toks, p)

\* the multiplicative tail taking the additive operators too
parseE2_merged(toks, p) ==
    parseEx_({"*", "/", "//", "%", "+", "-"}, {"$", ")", "|", ","}, "parseE3", toks, p)

parseE2_(toks, p) ==
    parseEx_({"*", "/", "//", "%"}, {"+", "-", "$", ")", "|", ","}, "parseE3", toks, p)

parseE4_(toks, p) ==
    parseEx_({"^"}, {"*", "/", "//", "%", "$", "+", "-", ")", "|", ","}, "parseE5", toks, p)

\* parseE5_ after the recursive call: '!' if it returned None, else None
parseE5__ret(b) ==
    IF ~b.ok THEN b
    ELSE IF b.e.none THEN Ok(Some("!"), b.p)
    ELSE Ok(None, b.p)

parseE5_(toks, p) ==
    IF lxin(toks, p, {"!"}) THEN
        LET n == next(toks, p) IN
        IF ~n.ok THEN n ELSE parseE5__ret(parseE5_(toks, n.p))
    ELSE IF lxin(toks, p, {"^", "$", "*", "/", "//", "%", "+", "-", ")", "|", ","})
         THEN Ok(None, p)
    ELSE error(p)

parseP(toks, p) ==
    IF ~lxin(toks, p, {"num", "id", "(", "|", "-"}) THEN error(p)
    ELSE parseE1(toks, p)

\* Parser2(data).parse(): self.gen = self.lexer.lex(); self.cur = gen.next()
parse(data) == parseP(lex(data), 1)

(***************************************************************************)
(* Numbers.  The outcome of an evaluation is [k, v, s]:                     *)
(*   k = "int"        the int v, of magnitude at most MaxInt;              *)
(*   k = "KeyError"   raised, s the missing key;                           *)
(*   k = "ZeroDivisionError", "ValueError"   raised;                       *)
(*   k = "untracked"  a float or complex value, an int above MaxInt, or    *)
(*                    whatever an operation on one of those gives, value   *)
(*                    or exception: the model does not determine it;       *)
(*   k = "exception"  some exception is raised for certain, of a type the  *)
(*                    model does not determine (an untracked operand was   *)
(*                    evaluated before an operand that raises).            *)
(***************************************************************************)
IntV(n) == [k |-> "int", v |-> n, s |-> ""]
Raise(kind, s) == [k |-> kind, v |-> 0, s |-> s]
Untracked == [k |-> "untracked", v |-> 0, s |-> ""]
Exception == [k |-> "exception", v |-> 0, s |-> ""]
Errors == {"KeyError", "ZeroDivisionError", "ValueError"}
Raised(r) == r.k \in Errors \cup {"exception"}

Abs(n) == IF n < 0 THEN -n ELSE n
Track(n) == IF Abs(n) <= MaxInt THEN IntV(n) ELSE Untracked

\* Python's floor division and modulo of ints, b # 0
FloorDiv(a, b) ==
    LET q == Abs(a) \div Abs(b)
        exact == q * Abs(b) = Abs(a)
    IN  IF (a < 0) = (b < 0) THEN q ELSE IF exact THEN -q ELSE -q - 1
PyMod(a, b) == a - b * FloorDiv(a, b)

\* a ** b for b >= 0, stopping as soon as the magnitude passes MaxInt
RECURSIVE powLoop(_, _, _)
powLoop(acc, a, b) ==
    IF b = 0 THEN Track(acc)
    ELSE IF Abs(acc * a) > MaxInt THEN Untracked
    ELSE powLoop(acc * a, a, b - 1)
Pow(a, b) ==
    IF b < 0 THEN IF a = 0 THEN Raise("ZeroDivisionError", "") ELSE Untracked
    ELSE IF b = 0 THEN IntV(1)
    ELSE IF a = 0 THEN IntV(0)
    ELSE IF a = 1 THEN IntV(1)
    ELSE IF a = -1 THEN IntV(IF b % 2 = 0 THEN 1 ELSE -1)
    ELSE powLoop(1, a, b)

\* math.factorial
RECURSIVE factLoop(_, _, _)
factLoop(acc, i, n) ==
    IF i > n THEN Track(acc)
    ELSE IF acc * i > MaxInt THEN Untracked
    ELSE factLoop(acc * i, i + 1, n)
factorial(n) == IF n < 0 THEN Raise("ValueError", "") ELSE factLoop(1, 1, n)

DigitVal(c) ==
    CASE c = "0" -> 0 [] c = "1" -> 1 [] c = "2" -> 2 [] c = "3" -> 3 [] c = "4" -> 4
      [] c = "5" -> 5 [] c = "6" -> 6 [] c = "7" -> 7 [] c = "8" -> 8 [] c = "9" -> 9

\* int(text) of a digit string
RECURSIVE int(_)
int(s) == IF s = <<>> THEN 0 ELSE int(SubSeq(s, 1, Len(s) - 1)) * 10 + DigitVal(s[Len(s)])

Contains(s, c) == \E i \in 1..Len(s) : s[i] = c

(***************************************************************************)
(* Code.  Code.gen(e) returns cls(f, names); the closure f is the term     *)
(* [f, v, s, args]: f names the operation the lambda applies, v is the     *)
(* captured constant n, s the captured variable name, args the captured    *)
(* sub-Code objects.  gen's result is [ok, names, f, err]: ok is FALSE     *)
(* when gen raised, err then being the undefined function's name.          *)
(***************************************************************************)
Lambda(f, v, s, args) == [f |-> f, v |-> v, s |-> s, args |-> args]
Code(f, names) == [ok |-> TRUE, names |-> names, f |-> f, err |-> ""]
GenError(fn) == [ok |-> FALSE, names |-> <<>>, f |-> Lambda("raise", 0, "", <<>>), err |-> fn]

\* the builtins that compile e.args[1] only
Unary == {"abs", "ceil", "cos", "degrees", "floor", "log", "log10", "log2",
          "radians", "round", "sin", "tan"}

\* the function a unary builtin's lambda calls
UnaryCall(fn) == IF fn = "abs" THEN "abs" ELSE IF fn = "round" THEN "round" ELSE "math." \o fn

\* [Code.gen(arg) for arg in args]: the list, or the first failure
RECURSIVE genAll(_, _)
RECURSIVE names_extend(_)
names_extend(cs) == IF cs = <<>> THEN <<>> ELSE Head(cs).names \o names_extend(Tail(cs))

RECURSIVE gen(_)
gen(e) ==
    IF e.op = "num" THEN
        IF Contains(e.data, ".") THEN Code(Lambda("float", 0, "", <<>>), <<>>)
        ELSE Code(Lambda("const", int(e.data), "", <<>>), <<>>)
    ELSE IF e.op = "id" THEN
        LET s == Str(e.data) IN
        IF s = "e" THEN Code(Lambda("math.e", 0, "", <<>>), <<>>)
        ELSE IF s = "pi" THEN Code(Lambda("math.pi", 0, "", <<>>), <<>>)
        ELSE IF s = "i" THEN Code(Lambda("1j", 0, "", <<>>), <<>>)
        ELSE Code(Lambda("kw", 0, s, <<>>), <<s>>)
    ELSE IF e.op = "-" /\ Len(e.args) = 1 THEN
        LET lhs == gen(e.args[1]) IN
        IF ~lhs.ok THEN lhs ELSE Code(Lambda("neg", 0, "", <<lhs>>), lhs.names)
    ELSE IF e.op \in {"+", "-", "*", "/", "%", "//", "^"} THEN
        LET lhs == gen(e.args[1]) IN
        IF ~lhs.ok THEN lhs
        ELSE LET rhs == gen(e.args[2]) IN
             IF ~rhs.ok THEN rhs
             ELSE Code(Lambda(IF e.op = "^" THEN "**" ELSE e.op, 0, "", <<lhs, rhs>>),
                       lhs.names \o rhs.names)
    ELSE IF e.op = "!" THEN
        LET lhs == gen(e.args[1]) IN
        IF ~lhs.ok THEN lhs ELSE Code(Lambda("math.factorial", 0, "", <<lhs>>), lhs.names)
    ELSE IF e.op = "abs" THEN
        LET lhs == gen(e.args[1]) IN
        IF ~lhs.ok THEN lhs ELSE Code(Lambda("abs", 0, "", <<lhs>>), lhs.names)
    ELSE IF e.op = "apply" THEN
        LET fn == Str(e.data) IN
        IF fn \in Unary THEN
            LET lhs == gen(e.args[1]) IN
            IF ~lhs.ok THEN lhs ELSE Code(Lambda(UnaryCall(fn), 0, "", <<lhs>>), lhs.names)
        ELSE IF fn = "max" THEN
            LET args == genAll(e.args, 1) IN
            IF ~args.ok THEN args.bad
            ELSE Code(Lambda("min", 0, "", args.cs), names_extend(args.cs))
        ELSE IF fn = "min" THEN
            LET args == genAll(e.args, 1) IN
            IF ~args.ok THEN args.bad
            ELSE Code(Lambda("min", 0, "", args.cs), names_extend(args.cs))
        ELSE GenError(fn)
    ELSE GenError("can't handle")

genAll(es, i) ==
    IF i > Len(es) THEN [ok |-> TRUE, cs |-> <<>>, bad |-> GenError("")]
    ELSE LET c == gen(es[i]) IN
         IF ~c.ok THEN [ok |-> FALSE, cs |-> <<>>, bad |-> c]
         ELSE LET rest == genAll(es, i + 1) IN
              IF ~rest.ok THEN rest
              ELSE [ok |-> TRUE, cs |-> <<c>> \o rest.cs, bad |-> rest.bad]

(***************************************************************************)
(* Code.run: apply the closure to the environment kw.                      *)
(***************************************************************************)
\* kw.get(s, 0)
Lookup_default(kw, s) == IF s \in DOMAIN kw THEN Track(kw[s]) ELSE IntV(0)

\* kw[s]
Lookup(kw, s) == IF s \in DOMAIN kw THEN Track(kw[s]) ELSE Raise("KeyError", s)

IntOp(op, a, b) ==
    CASE op = "+" -> Track(a + b)
      [] op = "-" -> Track(a - b)
      [] op = "*" -> Track(a * b)
      [] op \in {"/", "//"} -> IF b = 0 THEN Raise("ZeroDivisionError", "") ELSE Track(FloorDiv(a, b))
      [] op = "%" -> IF b = 0 THEN Raise("ZeroDivisionError", "") ELSE Track(PyMod(a, b))
      [] op = "**" -> Pow(a, b)

\* lhs.run(kw) <op> rhs.run(kw): the left operand is evaluated first
BinOp(op, l, r) ==
    IF Raised(l) THEN l
    ELSE IF l.k = "untracked" THEN IF Raised(r) THEN Exception ELSE Untracked
    ELSE IF r.k # "int" THEN r
    ELSE IntOp(op, l.v, r.v)

UnOp(f, l) ==
    IF l.k # "int" THEN l
    ELSE CASE f = "neg" -> Track(-l.v)
           [] f = "abs" -> Track(Abs(l.v))
           [] f = "math.factorial" -> factorial(l.v)
           [] f \in {"math.log", "math.log10", "math.log2"} ->
                IF l.v <= 0 THEN Raise("ValueError", "") ELSE Untracked
           [] OTHER -> Untracked

\* min([a.run(kw) for a in args]): the list is computed left to right, so the
\* first argument that raises ends the call; then the least element
RECURSIVE minList(_, _, _)
minList(rs, i, acc) ==
    IF i > Len(rs) THEN acc
    ELSE IF Raised(rs[i]) THEN IF acc.k = "untracked" THEN Exception ELSE rs[i]
    ELSE IF rs[i].k = "untracked" \/ acc.k = "untracked" THEN minList(rs, i + 1, Untracked)
    ELSE minList(rs, i + 1, IF rs[i].v < acc.v THEN rs[i] ELSE acc)
min(rs) == IF Raised(rs[1]) THEN rs[1] ELSE minList(rs, 2, rs[1])

RECURSIVE run(_, _)
run(c, kw) ==
    LET f == c.f.f IN
    IF f = "const" THEN Track(c.f.v)
    ELSE IF f \in {"float", "math.e", "math.pi", "1j"} THEN Untracked
    ELSE IF f = "kw" THEN Lookup(kw, c.f.s)
    ELSE IF f \in {"+", "-", "*", "/", "%", "//", "**"} THEN
        BinOp(f, run(c.f.args[1], kw), run(c.f.args[2], kw))
    ELSE IF f = "min" THEN min([i \in 1..Len(c.f.args) |-> run(c.f.args[i], kw)])
    ELSE UnOp(f, run(c.f.args[1], kw))

(***************************************************************************)
(* Inputs.  An input is the concatenation of words; the lexer sees only    *)
(* the resulting characters.                                               *)
(***************************************************************************)
RECURSIVE Cat(_)
Cat(ws) == IF ws = <<>> THEN <<>> ELSE Head(ws) \o Cat(Tail(ws))

RECURSIVE SeqsUpTo(_, _)
SeqsUpTo(S, n) ==
    IF n = 0 THEN {<<>>}
    ELSE LET R == SeqsUpTo(S, n - 1) IN R \cup {Append(r, w) : r \in {q \in R : Len(q) = n - 1}, w \in S}

SeqsOf(S, n) == {q \in SeqsUpTo(S, n) : Len(q) = n}

Rep(w, k) == Cat([i \in 1..k |-> w])

NumWords == {<<"2">>, <<"3">>, <<"4">>}
IdWords == {<<"x">>}
Atoms == NumWords \cup IdWords
AddOps == {<<"+">>, <<"-">>}
MulOps == {<<"*">>, <<"/">>, <<"/", "/">>, <<"%">>}
PowOps == {<<"^">>}
BinOps == AddOps \cup MulOps \cup PowOps
FnWords == {<<"a","b","s">>, <<"m","a","x">>, <<"m","i","n">>, <<"l","o","g">>,
            <<"f","l","o","o","r">>, <<"b","o","g","u","s">>}
FreeWords == {<<"2">>, <<"x">>, <<"+">>, <<"*">>, <<"/">>, <<"^">>, <<"!">>, <<"-">>,
              <<"(">>, <<")">>, <<"|">>, <<",">>, <<".">>, <<" ">>}

\* every concatenation of at most MaxLen free words
FreeInputs == {Cat(q) : q \in SeqsUpTo(FreeWords, MaxLen)}

\* a0 op1 a1 ... opn an, the operators of one tier, n = 1..MaxRun
RunsOf(Ops) ==
    UNION {{a \o Cat([i \in 1..n |-> os[i] \o as[i]])
              : a \in Atoms, os \in SeqsOf(Ops, n), as \in SeqsOf(Atoms, n)}
            : n \in 1..MaxRun}
AddRuns == RunsOf(AddOps)
MulRuns == RunsOf(MulOps)
PowRuns == RunsOf(PowOps)
RunInputs == AddRuns \cup MulRuns \cup PowRuns

\* two operators of any tiers, bare and parenthesized either way
MixedInputs ==
    {a \o o1 \o b \o o2 \o c : a \in Atoms, b \in Atoms, c \in Atoms, o1 \in BinOps, o2 \in BinOps}
ParenInputs ==
    {<<"(">> \o a \o o1 \o b \o <<")">> \o o2 \o c
        : a \in Atoms, b \in Atoms, c \in Atoms, o1 \in BinOps, o2 \in BinOps}
    \cup {a \o o1 \o <<"(">> \o b \o o2 \o c \o <<")">>
        : a \in Atoms, b \in Atoms, c \in Atoms, o1 \in BinOps, o2 \in BinOps}

\* unary minus in front of, and inside, a binary operation
MinusInputs ==
    {<<"-">> \o a \o o \o b : a \in Atoms, b \in Atoms, o \in BinOps}
    \cup {a \o o \o <<"-">> \o b : a \in Atoms, b \in Atoms, o \in BinOps}
    \cup {<<"(">> \o <<"-">> \o a \o <<")">> \o o \o b : a \in Atoms, b \in Atoms, o \in BinOps}

\* an atom followed by k = 1..MaxBang '!', alone and next to '^' and '-'
BangInputs ==
    UNION {{a \o Rep(<<"!">>, k), <<"-">> \o a \o Rep(<<"!">>, k),
            a \o Rep(<<"!">>, k) \o <<"^">> \o a, a \o <<"^">> \o a \o Rep(<<"!">>, k),
            <<"(">> \o a \o <<"!">> \o <<")">> \o Rep(<<"!">>, k)}
            : a \in Atoms, k \in 1..MaxBang}

\* f(a1, ..., an), n = 1..MaxArgs
ArgList(as) == as[1] \o Cat([i \in 1..(Len(as) - 1) |-> <<",">> \o as[i + 1]])
CallInputs ==
    UNION {{f \o <<"(">> \o ArgList(as) \o <<")">> : f \in FnWords, as \in SeqsOf(Atoms, n)}
            : n \in 1..MaxArgs}

\* a call as the first or the second argument of a call
NestedInputs ==
    {f \o <<"(">> \o g \o <<"(">> \o a \o <<")">> \o <<")">> : f \in FnWords, g \in FnWords, a \in Atoms}
    \cup {f \o <<"(">> \o a \o <<",">> \o g \o <<"(">> \o b \o <<")">> \o <<")">>
            : f \in FnWords, g \in FnWords, a \in Atoms, b \in Atoms}
    \cup {f \o <<"(">> \o g \o <<"(">> \o a \o <<")">> \o <<",">> \o b \o <<")">>
            : f \in FnWords, g \in FnWords, a \in Atoms, b \in Atoms}

\* the inputs of the header comment of calc.py and of the specification
Examples ==
    { <<"2"," ","+"," ","2">>, <<"9","!">>,
      <<"2","^","f","o","o"," ","-"," ","1">>,
      <<"e","^","(","i","*","p","i",")"," ","+"," ","1">>,
      <<"(","2"," ","+"," ","3",")"," ","*"," ","|","4"," ","-"," ","x","|">>,
      <<"x","+","1">>, <<"8","-","3","-","2">>, <<"1","0","-","4","+","3">>,
      <<"|","4","-","1","0","|">>, <<"b","o","g","u","s","(","1",")">>,
      <<"4",".","5","2">>, <<"1","/","0","+","x">>, <<"(","0","-","1",")","!","+","x">>,
      <<"4",".","5","+","x">>, <<"x","+","4",".","5">>, <<"m","i","n","(","p","i",",","x",")">>,
      <<"3","!","!">>, <<"m","a","x","(","2",",","3",")">>,
      <<"X">>, <<"X","+","1">>, <<"f","o","o","B","a","r">>,
      <<"2","\t","+","\t","2">>, <<"2","\n">>, <<"2","\r","*","\f","x">> }

Inputs == FreeInputs \cup RunInputs \cup MixedInputs \cup ParenInputs \cup MinusInputs
          \cup BangInputs \cup CallInputs \cup NestedInputs \cup Examples

\* environments: every binding of a subset of the variable names
VarNames == {"x", "foo"}
EnvVals == {0, 8}
Envs == UNION {[D -> EnvVals] : D \in SUBSET VarNames}

(***************************************************************************)
(* The program: main parses the input, compiles the AST, runs the code.    *)
(***************************************************************************)
NoLexeme == Lexeme("", -1, <<>>)
NoExpr == Expr("", <<>>, <<>>)
NoCode == GenError("")
NoEnv == [n \in {} |-> 0]
NoResult == Raise("", "")

Init ==
    /\ text \in Inputs
    /\ pc = "start"
    /\ cur = NoLexeme
    /\ ast = NoExpr
    /\ code = NoCode
    /\ env = NoEnv
    /\ result = NoResult

\* e = Parser2(s).parse()
Parse ==
    /\ pc = "start"
    /\ LET r == parse(text) IN
        /\ cur' = lex(text)[r.p]
        /\ IF r.ok THEN ast' = r.e /\ pc' = "parsed"
                   ELSE ast' = NoExpr /\ pc' = "parse error"
    /\ UNCHANGED <<text, code, env, result>>

\* c = Code.gen(e)
Gen ==
    /\ pc = "parsed"
    /\ code' = gen(ast)
    /\ pc' = IF code'.ok THEN "compiled" ELSE "compile error"
    /\ UNCHANGED <<text, cur, ast, env, result>>

\* r = c.run(d); a Code object may be run any number of times
Run ==
    /\ pc \in {"compiled", "done"}
    /\ \E kw \in Envs :
        /\ env' = kw
        /\ result' = run(code, kw)
    /\ pc' = "done"
    /\ UNCHANGED <<text, cur, ast, code>>

Next == Parse \/ Gen \/ Run

Spec == Init /\ [][Next]_vars

(***************************************************************************)
(* Properties.  The expected trees are built from the lexemes of the       *)
(* input, independently of the parser.                                     *)
(***************************************************************************)
ParsedOk == pc \in {"parsed", "compiled", "compile error", "done"}
Compiled == pc \in {"compiled", "done"}

IsAtom(t) == t.name \in {"num", "id"}
AtomOf(t) == Expr(t.name, t.data, <<>>)      \* Number(text) or Identifier(name)
AddNames == {"+", "-"}
MulNames == {"*", "/", "//", "%"}

Leaf(w) == IF w \in NumWords THEN Expr("num", w, <<>>) ELSE Expr("id", w, <<>>)
Bin(o, l, r) == Expr(o, <<>>, <<l, r>>)
Neg(l) == Expr("-", <<>>, <<l>>)
Fact(l) == Expr("!", <<>>, <<l>>)

RECURSIVE NestFact(_, _)
NestFact(e, k) == IF k = 0 THEN e ELSE Fact(NestFact(e, k - 1))

\* In what follows toks are the lexemes of the input, the sentinel last.

\* the input is a flat run  a0 op1 a1 ... opn an, n >= 1, of operators in Ops
IsRun(toks, Ops) ==
    /\ Len(toks) >= 4 /\ Len(toks) % 2 = 0
    /\ \A i \in 1..(Len(toks) - 1) :
          IF i % 2 = 1 THEN IsAtom(toks[i]) ELSE toks[i].name \in Ops

\* the left-nested tree of the first k lexemes of a run:
\* opn(... op2(op1(a0, a1), a2) ..., an)
RECURSIVE LeftNest(_, _)
LeftNest(toks, k) ==
    IF k = 1 THEN AtomOf(toks[1])
    ELSE Bin(toks[k - 1].name, LeftNest(toks, k - 2), AtomOf(toks[k]))

\* the right-nested tree of the lexemes of a run from the i-th on:
\* op1(a0, op2(a1, ... opn(a(n-1), an)))
RECURSIVE RightNest(_, _)
RightNest(toks, i) ==
    IF i = Len(toks) - 1 THEN AtomOf(toks[i])
    ELSE Bin(toks[i + 1].name, AtomOf(toks[i]), RightNest(toks, i + 2))

\* the names of the lexemes before the sentinel are exactly ns, "atom"
\* standing for a number or an identifier
Shape(toks, ns) ==
    /\ Len(toks) - 1 = Len(ns)
    /\ \A i \in 1..Len(ns) : IF ns[i] = "atom" THEN IsAtom(toks[i]) ELSE toks[i].name = ns[i]

Builtins == {"abs", "ceil", "cos", "degrees", "floor", "log", "log10", "log2",
             "max", "min", "radians", "round", "sin", "tan"}

\* an Apply node of an unknown function anywhere in the tree
RECURSIVE HasUnknownApply(_)
HasUnknownApply(e) ==
    \/ e.op = "apply" /\ Str(e.data) \notin Builtins
    \/ \E i \in 1..Len(e.args) : HasUnknownApply(e.args[i])

\* the Identifier leaves other than e, pi and i, left to right
RECURSIVE Identifiers(_)
Identifiers(e) ==
    IF e.op = "id" THEN IF Str(e.data) \in {"e", "pi", "i"} THEN <<>> ELSE <<Str(e.data)>>
    ELSE Cat([i \in 1..Len(e.args) |-> Identifiers(e.args[i])])

MissingNames == {code.names[i] : i \in 1..Len(code.names)} \ DOMAIN env

\* C1: an atom followed by k >= 1 '!' tokens parses to k nested Factorial
\* nodes around the atom, and `3!!` evaluates to 720.
C1_FactorialStacks ==
    /\ LET toks == lex(text) IN
       (Len(toks) >= 3 /\ IsAtom(toks[1]) /\ \A i \in 2..(Len(toks) - 1) : toks[i].name = "!") =>
            /\ pc # "parse error"
            /\ ParsedOk => ast = NestFact(AtomOf(toks[1]), Len(toks) - 2)
    /\ (pc = "done" /\ text = <<"3", "!", "!">>) => result = IntV(720)

\* C2: max of two or more arguments evaluates to the largest of the values
\* of its arguments, min to the smallest.
ArgValues == [i \in 1..Len(ast.args) |-> run(gen(ast.args[i]), env)]
C2_MaxIsMaximum ==
    (/\ pc = "done"
     /\ ast.op = "apply" /\ Str(ast.data) \in {"max", "min"} /\ Len(ast.args) >= 2
     /\ \A i \in 1..Len(ast.args) : ArgValues[i].k = "int")
    => /\ result.k = "int"
       /\ \E i \in 1..Len(ast.args) : result.v = ArgValues[i].v
       /\ \A i \in 1..Len(ast.args) :
            IF Str(ast.data) = "max" THEN result.v >= ArgValues[i].v
            ELSE result.v <= ArgValues[i].v

\* C3: an AST that contains an Apply node of a function outside the builtin
\* set, anywhere in the tree, does not compile: Code.gen raises, naming an
\* undefined function.
C3_UnknownFunctionRejected ==
    /\ Compiled => ~HasUnknownApply(ast)
    /\ pc = "compile error" => HasUnknownApply(ast) /\ code.err \notin Builtins

\* C4: when parse returns an AST the lookahead token is the END sentinel.
C4_ParseConsumesAll == ParsedOk => cur.name = "$"

\* C5: a + b * c parses as +(a, *(b, c)) and (a + b) * c as *(+(a, b), c),
\* for all atoms a, b, c and every additive and multiplicative operator in
\* place of + and *; `2+3*4` evaluates to 14 and `(2+3)*4` to 20.
C5_Precedence ==
    /\ LET toks == lex(text) IN
       \A o1 \in AddNames, o2 \in MulNames :
        /\ Shape(toks, <<"atom", o1, "atom", o2, "atom">>) =>
              /\ pc # "parse error"
              /\ ParsedOk => ast = Bin(o1, AtomOf(toks[1]), Bin(o2, AtomOf(toks[3]), AtomOf(toks[5])))
        /\ Shape(toks, <<"atom", o2, "atom", o1, "atom">>) =>
              /\ pc # "parse error"
              /\ ParsedOk => ast = Bin(o1, Bin(o2, AtomOf(toks[1]), AtomOf(toks[3])), AtomOf(toks[5]))
        /\ Shape(toks, <<"(", "atom", o1, "atom", ")", o2, "atom">>) =>
              /\ pc # "parse error"
              /\ ParsedOk => ast = Bin(o2, Bin(o1, AtomOf(toks[2]), AtomOf(toks[4])), AtomOf(toks[7]))
    /\ (pc = "done" /\ text = <<"2", "+", "3", "*", "4">>) => result = IntV(14)
    /\ (pc = "done" /\ text = <<"(", "2", "+", "3", ")", "*", "4">>) => result = IntV(20)

C5_Witness ==
    /\ pc = "done" /\ text = <<"2", "+", "3", "*", "4">>
    /\ ast = Bin("+", Leaf(<<"2">>), Bin("*", Leaf(<<"3">>), Leaf(<<"4">>)))
    /\ result = IntV(14)

\* C6: a run a1 ^ a2 ^ ... ^ an of n >= 2 atoms parses to
\* ^(a1, ^(a2, ... ^(a(n-1), an))), operands in source order; `2^3^2`
\* evaluates to 512.
C6_PowerRightAssoc ==
    /\ LET toks == lex(text) IN
       IsRun(toks, {"^"}) =>
          /\ pc # "parse error"
          /\ ParsedOk => ast = RightNest(toks, 1)
    /\ (pc = "done" /\ text = <<"2", "^", "3", "^", "2">>) => result = IntV(512)

C6_Witness ==
    /\ pc = "done" /\ text = <<"2", "^", "3", "^", "2">>
    /\ ast = Bin("^", Leaf(<<"2">>), Bin("^", Leaf(<<"3">>), Leaf(<<"2">>)))
    /\ result = IntV(512)

\* C7: a flat run a0 op1 a1 ... opn an of additive operators, or of
\* multiplicative operators, parses to the left-nested tree
\* opn(... op2(op1(a0, a1), a2) ..., an), each operator with its own operands;
\* `8-3-2` is (8-3)-2 and `10-4+3` is (10-4)+3.
C7_LeftAssoc ==
    /\ LET toks == lex(text) IN
       (IsRun(toks, AddNames) \/ IsRun(toks, MulNames)) =>
          /\ pc # "parse error"
          /\ ParsedOk => ast = LeftNest(toks, Len(toks) - 1)
    /\ (pc = "done" /\ text = <<"8", "-", "3", "-", "2">>) =>
          /\ ast = Expr("-", <<>>, <<Expr("-", <<>>, <<Expr("num", <<"8">>, <<>>),
                                                        Expr("num", <<"3">>, <<>>)>>),
                                     Expr("num", <<"2">>, <<>>)>>)
          /\ result = IntV(3)
    /\ (pc = "done" /\ text = <<"1", "0", "-", "4", "+", "3">>) =>
          /\ ast = Expr("+", <<>>, <<Expr("-", <<>>, <<Expr("num", <<"1", "0">>, <<>>),
                                                        Expr("num", <<"4">>, <<>>)>>),
                                     Expr("num", <<"3">>, <<>>)>>)
          /\ result = IntV(9)

C7_Witness ==
    /\ pc = "done" /\ text = <<"4", "-", "3", "-", "2">>
    /\ ast = Bin("-", Bin("-", Leaf(<<"4">>), Leaf(<<"3">>)), Leaf(<<"2">>))
    /\ result = IntV(-1)

\* C8: -a^b parses as UnaryMinus(^(a, b)), never as ^(UnaryMinus(a), b),
\* for all atoms a and b; `-2^2` evaluates to -4.
C8_MinusLooserThanPower ==
    /\ LET toks == lex(text) IN
       Shape(toks, <<"-", "atom", "^", "atom">>) =>
          /\ pc # "parse error"
          /\ ParsedOk => ast = Neg(Bin("^", AtomOf(toks[2]), AtomOf(toks[4])))
    /\ (pc = "done" /\ text = <<"-", "2", "^", "2">>) => result = IntV(-4)

C8_Witness ==
    /\ pc = "done" /\ text = <<"-", "2", "^", "2">>
    /\ ast = Neg(Bin("^", Leaf(<<"2">>), Leaf(<<"2">>)))
    /\ result = IntV(-4)

\* C9 as claimed: whenever a variable the compiled expression references is
\* absent from the environment, run fails with a lookup error naming a
\* missing key.  (An outcome "exception" may be that lookup error, so it is
\* not counted against the claim.)
C9_AlwaysLookupError ==
    (pc = "done" /\ MissingNames # {}) =>
        \/ result.k = "KeyError" /\ result.s \in MissingNames
        \/ result.k = "exception"

\* C9 amended: whenever a name of the compiled expression's free-name list
\* is absent from the environment, run returns no number: it raises, and
\* what it raises is a lookup error naming a missing key unless an operand
\* evaluated before that lookup raised an arithmetic or domain error;
\* `x+1` without x raises the lookup error naming x.
C9_MissingNameRaises ==
    /\ (pc = "done" /\ MissingNames # {}) =>
          /\ Raised(result)
          /\ result.k = "KeyError" => result.s \in MissingNames
    /\ (pc = "done" /\ text = <<"x", "+", "1">> /\ "x" \notin DOMAIN env) =>
          result = Raise("KeyError", "x")

C9_Witness ==
    /\ pc = "done" /\ text = <<"x", "+", "1">> /\ "x" \notin DOMAIN env
    /\ code.names = <<"x">>
    /\ result = Raise("KeyError", "x")

\* C10: for every AST that compiles, the free-name list is the sequence of
\* all Identifier leaves of the AST other than e, pi and i, in source order
\* with duplicates, those inside every argument of every application
\* included.
C10_NamesAreAllIdentifiers == Compiled => code.names = Identifiers(ast)

====
